---- MODULE Spec2Model ----
(***************************************************************************)
(* The Grid Scoring Engine of six-seven: AbyssalOptimizer.load_data and    *)
(* AbyssalOptimizer.calculate_scores (src/app/optimizer.py), with the      *)
(* parsing helpers _safe_eval and _get_float.                              *)
(*                                                                         *)
(* A CSV cell is a text: a sequence of one-character strings.  Numbers are *)
(* exact rationals <<n, d>> (d > 0, lowest terms); the non-finite floats   *)
(* (nan, inf) are outside the numeric domain of this model.                *)
(***************************************************************************)
EXTENDS Integers, Sequences, FiniteSets, TLC

(***************************************************************************)
(* Exact arithmetic                                                        *)
(***************************************************************************)
Abs(n) == IF n < 0 THEN -n ELSE n

RECURSIVE GCD(_, _)
GCD(a, b) == IF b = 0 THEN a ELSE GCD(b, a % b)

\* the rational n/d in lowest terms with a positive denominator
Sign(d) == IF d < 0 THEN -1 ELSE 1
Reduce(n, d, g) == <<n \div g, d \div g>>
Rat(n, d) == Reduce(Sign(d) * n, Sign(d) * d, GCD(Abs(n), Abs(d)))

RInt(n) == <<n, 1>>
RAdd(a, b) == Rat(a[1] * b[2] + b[1] * a[2], a[2] * b[2])
RSub(a, b) == Rat(a[1] * b[2] - b[1] * a[2], a[2] * b[2])
RMul(a, b) == Rat(a[1] * b[1], a[2] * b[2])
RDiv(a, b) == Rat(a[1] * b[2], a[2] * b[1])
RLess(a, b) == a[1] * b[2] < b[1] * a[2]
RZero == RInt(0)

RECURSIVE Pow10(_)
Pow10(k) == IF k = 0 THEN 1 ELSE 10 * Pow10(k - 1)

(***************************************************************************)
(* Python values.  Every value is a record of one shape:                   *)
(*   t: "num" | "none" | "str" | "list" | "tuple"                          *)
(*   q: the number (num), s: the characters (str),                         *)
(*   l: the elements (list, tuple)                                         *)
(***************************************************************************)
PyNum(q)   == [t |-> "num",   q |-> q,     s |-> <<>>, l |-> <<>>]
PyNone     == [t |-> "none",  q |-> RZero, s |-> <<>>, l |-> <<>>]
PyStr(s)   == [t |-> "str",   q |-> RZero, s |-> s,    l |-> <<>>]
PyList(l)  == [t |-> "list",  q |-> RZero, s |-> <<>>, l |-> l]
PyTuple(l) == [t |-> "tuple", q |-> RZero, s |-> <<>>, l |-> l]
\* a set, its elements in the order of their first appearance
PySet(l)   == [t |-> "set",   q |-> RZero, s |-> <<>>, l |-> l]
\* the empty dict
PyDict     == [t |-> "dict",  q |-> RZero, s |-> <<>>, l |-> <<>>]
\* in place of a value: the exception e that the expression raises
PyExc(e)   == [t |-> "exc",   q |-> RZero, s |-> <<e>>, l |-> <<>>]

\* the outcome of an expression: a value, or the exception it raises
Ok(v)      == [ok |-> TRUE,  v |-> v,      exc |-> "none"]
Raise(e)   == [ok |-> FALSE, v |-> PyNone, exc |-> e]

Digits  == {"0", "1", "2", "3", "4", "5", "6", "7", "8", "9"}
Letters == {"l", "o", "w", "m", "e", "d", "i", "u", "h", "g", "x", "t", "r",
            "N", "n", "H"}
Space   == " "

DigitVal(c) ==
    CASE c = "0" -> 0 [] c = "1" -> 1 [] c = "2" -> 2 [] c = "3" -> 3
      [] c = "4" -> 4 [] c = "5" -> 5 [] c = "6" -> 6 [] c = "7" -> 7
      [] c = "8" -> 8 [] c = "9" -> 9

\* the value of a run of digits
RECURSIVE DigitsVal(_)
DigitsVal(s) ==
    IF s = <<>> THEN 0
    ELSE 10 * DigitsVal(SubSeq(s, 1, Len(s) - 1)) + DigitVal(s[Len(s)])

AllIn(s, S) == \A i \in 1..Len(s) : s[i] \in S

\* str.strip(): leading and trailing whitespace removed
RECURSIVE LStrip(_)
LStrip(s) == IF s # <<>> /\ s[1] = Space THEN LStrip(Tail(s)) ELSE s

RECURSIVE RStrip(_)
RStrip(s) ==
    IF s # <<>> /\ s[Len(s)] = Space THEN RStrip(SubSeq(s, 1, Len(s) - 1)) ELSE s

Strip(s) == RStrip(LStrip(s))

\* index of the first "." of s, 0 if none
DotAt(s) ==
    IF \E i \in 1..Len(s) : s[i] = "."
    THEN CHOOSE i \in 1..Len(s) : s[i] = "." /\ \A j \in 1..(i - 1) : s[j] # "."
    ELSE 0

\* an unsigned decimal: digits, digits "." [digits], or "." digits
IsDecimalAt(s, k) ==
    IF k = 0 THEN s # <<>> /\ AllIn(s, Digits)
    ELSE /\ Len(s) > 1
         /\ AllIn(SubSeq(s, 1, k - 1), Digits)
         /\ AllIn(SubSeq(s, k + 1, Len(s)), Digits)

IsDecimal(s) == IsDecimalAt(s, DotAt(s))

\* the value of the digits after the point
FractionVal(frac) == Rat(DigitsVal(frac), Pow10(Len(frac)))

DecimalValAt(s, k) ==
    IF k = 0 THEN RInt(DigitsVal(s))
    ELSE RAdd(RInt(DigitsVal(SubSeq(s, 1, k - 1))),
              FractionVal(SubSeq(s, k + 1, Len(s))))

DecimalVal(s) == DecimalValAt(s, DotAt(s))

IsInteger(s) == s # <<>> /\ AllIn(s, Digits)

StartsWith(s, c) == s # <<>> /\ s[1] = c
EndsWith(s, c)   == s # <<>> /\ s[Len(s)] = c

\* a numeral without its sign
Unsigned(b) == IF StartsWith(b, "-") THEN Tail(b) ELSE b

SignedDecimalVal(b) ==
    IF StartsWith(b, "-") THEN RSub(RZero, DecimalVal(Tail(b))) ELSE DecimalVal(b)

SignedIntegerVal(b) ==
    IF StartsWith(b, "-") THEN -DigitsVal(Tail(b)) ELSE DigitsVal(b)

FloatOfStripped(b) ==
    IF IsDecimal(Unsigned(b)) THEN Ok(PyNum(SignedDecimalVal(b))) ELSE Raise("ValueError")

IntOfStripped(b) ==
    IF IsInteger(Unsigned(b)) THEN Ok(PyNum(RInt(SignedIntegerVal(b))))
    ELSE Raise("ValueError")

\* float(text): Python's float() of a str (decimal notation, optional sign)
FloatOfText(s) == FloatOfStripped(Strip(s))

\* int(text): Python's int() of a str
IntOfText(s) == IntOfStripped(Strip(s))

\* float(x) of a Python value
PyFloat(x) ==
    CASE x.t = "num"  -> Ok(PyNum(x.q))
      [] x.t = "str"  -> FloatOfText(x.s)
      [] OTHER        -> Raise("TypeError")

(***************************************************************************)
(* ast.literal_eval on the literals a list cell can hold: decimal numbers, *)
(* quoted strings ('...' and the triple-quoted form), None, nested [lists] *)
(* and {sets}, the empty                                                   *)
(* dict {}, and a top-level comma-separated tuple (binary operators are    *)
(* not covered).  Its failures ValueError and SyntaxError are caught       *)
(* together by every caller and are one outcome, LiteralError; a set       *)
(* display with an unhashable element fails with TypeError.  The text is   *)
(* parsed first (a syntax error anywhere wins) and its nodes are converted *)
(* from left to right: a node whose conversion fails stands in the parse   *)
(* as the exception it raises, and a display takes the first exception of  *)
(* its elements.                                                           *)
(***************************************************************************)
Tok(k, v) == [k |-> k, v |-> v]

\* the last index j >= i - 1 with s[i..j] inside S
RECURSIVE RunEnd(_, _, _)
RunEnd(s, i, S) ==
    IF i <= Len(s) /\ s[i] \in S THEN RunEnd(s, i + 1, S) ELSE i - 1

\* index of the first "'" at or after i, 0 if none
RECURSIVE QuoteAt(_, _)
QuoteAt(s, i) ==
    IF i > Len(s) THEN 0 ELSE IF s[i] = "'" THEN i ELSE QuoteAt(s, i + 1)

NumberTok(run) ==
    LET leadingZero == /\ DotAt(run) = 0 /\ Len(run) > 1 /\ run[1] = "0"
                       /\ DigitsVal(run) # 0
    IN  IF IsDecimal(run) /\ ~leadingZero
        THEN Tok("val", PyNum(DecimalVal(run)))
        ELSE Tok("err", PyNone)

\* a name other than None is a malformed node
NameTok(run) ==
    IF run = <<"N", "o", "n", "e">> THEN Tok("val", PyNone)
    ELSE Tok("val", PyExc("ValueError"))

RECURSIVE Lex(_, _)

\* the number token s[i..j] and the tokens after it
LexNumber(s, i, j) == <<NumberTok(SubSeq(s, i, j))>> \o Lex(s, j + 1)

\* the name token s[i..j] and the tokens after it
LexName(s, i, j) == <<NameTok(SubSeq(s, i, j))>> \o Lex(s, j + 1)

\* index of the first "'''" at or after i, 0 if none
RECURSIVE TripleAt(_, _)
TripleAt(s, i) ==
    IF i + 2 > Len(s) THEN 0
    ELSE IF s[i] = "'" /\ s[i + 1] = "'" /\ s[i + 2] = "'" THEN i
    ELSE TripleAt(s, i + 1)

\* the string token opened by the "'''" at s[i] and closed by the one at s[j]
LexTriple(s, i, j) ==
    IF j = 0 THEN <<Tok("err", PyNone)>>
    ELSE <<Tok("val", PyStr(SubSeq(s, i + 3, j - 1)))>> \o Lex(s, j + 3)

\* the string token opened at s[i] and closed at s[j] (j = 0: never closed)
LexString(s, i, j) ==
    IF j = 0 THEN <<Tok("err", PyNone)>>
    ELSE IF j = i + 1 /\ j < Len(s) /\ s[j + 1] = "'"
         THEN LexTriple(s, i, TripleAt(s, i + 3))
    ELSE <<Tok("val", PyStr(SubSeq(s, i + 1, j - 1)))>> \o Lex(s, j + 1)

LexChar(s, i, c) ==
    CASE c = Space -> Lex(s, i + 1)
      [] c \in {"[", "]", "{", "}", ",", "-"} -> <<Tok(c, PyNone)>> \o Lex(s, i + 1)
      [] c \in Digits \cup {"."} -> LexNumber(s, i, RunEnd(s, i, Digits \cup {"."}))
      [] c \in Letters -> LexName(s, i, RunEnd(s, i, Letters \cup Digits))
      [] c = "'" -> LexString(s, i, QuoteAt(s, i + 1))
      [] OTHER -> <<Tok("err", PyNone)>>

\* the tokens of s from index i on
Lex(s, i) == IF i > Len(s) THEN <<>> ELSE LexChar(s, i, s[i])

\* a parse: ok, the value, and the index of the next token
Parsed(v, i) == [ok |-> TRUE, v |-> v, i |-> i]
NoParse      == [ok |-> FALSE, v |-> PyNone, i |-> 0]

IsStrTok(toks, i) == i <= Len(toks) /\ toks[i].k = "val" /\ toks[i].v.t = "str"
IsNumTok(toks, i) == i <= Len(toks) /\ toks[i].k = "val" /\ toks[i].v.t = "num"

\* index of the first element of acc, at or after i, that is an exception; 0 if none
RECURSIVE ExcAt(_, _)
ExcAt(acc, i) ==
    IF i > Len(acc) THEN 0 ELSE IF acc[i].t = "exc" THEN i ELSE ExcAt(acc, i + 1)

\* the value v of a display of the elements acc, or the first exception among them
FirstOr(acc, k, v) == IF k = 0 THEN v ELSE acc[k]

ListOf(acc)  == FirstOr(acc, ExcAt(acc, 1), PyList(acc))
TupleOf(acc) == FirstOr(acc, ExcAt(acc, 1), PyTuple(acc))

\* hash(x) succeeds
Hashable(x) == x.t \notin {"list", "set", "dict"}

\* index of the first element of acc, at or after i, that set() cannot take: an
\* exception or an unhashable value; 0 if none
RECURSIVE UnsetAt(_, _)
UnsetAt(acc, i) ==
    IF i > Len(acc) THEN 0
    ELSE IF acc[i].t = "exc" \/ ~Hashable(acc[i]) THEN i
    ELSE UnsetAt(acc, i + 1)

\* acc without the repetitions of its elements
RECURSIVE Distinct(_, _)
Distinct(acc, seen) ==
    IF acc = <<>> THEN seen
    ELSE IF \E k \in 1..Len(seen) : seen[k] = acc[1] THEN Distinct(Tail(acc), seen)
    ELSE Distinct(Tail(acc), Append(seen, acc[1]))

\* set(map(_convert, elts))
SetFrom(acc, k) ==
    IF k = 0 THEN PySet(Distinct(acc, <<>>))
    ELSE IF acc[k].t = "exc" THEN acc[k]
    ELSE PyExc("TypeError")

SetOf(acc) == SetFrom(acc, UnsetAt(acc, 1))

RECURSIVE ParseExpr(_, _)
RECURSIVE ParseItems(_, _, _)
RECURSIVE ParseSetItems(_, _, _)
RECURSIVE ParseTuple(_, _, _)

\* a minus sign before the parse e of something that is not a number
Negated(e) == IF e.ok THEN Parsed(PyExc("ValueError"), e.i) ELSE NoParse

\* adjacent string literals are one string: s followed by the string parse r
Concat(s, r) == Parsed(PyStr(s \o r.v.s), r.i)

ParseTok(toks, i, t) ==
    CASE t.k = "val" ->
           IF t.v.t = "str" /\ IsStrTok(toks, i + 1)
           THEN Concat(t.v.s, ParseExpr(toks, i + 1))
           ELSE Parsed(t.v, i + 1)
      [] t.k = "-" ->
           IF IsNumTok(toks, i + 1)
           THEN Parsed(PyNum(RSub(RZero, toks[i + 1].v.q)), i + 2)
           ELSE Negated(ParseExpr(toks, i + 1))
      [] t.k = "[" -> ParseItems(toks, i + 1, <<>>)
      [] t.k = "{" ->
           IF i + 1 <= Len(toks) /\ toks[i + 1].k = "}"
           THEN Parsed(PyDict, i + 2)
           ELSE ParseSetItems(toks, i + 1, <<>>)
      [] OTHER -> NoParse

\* one expression starting at token i
ParseExpr(toks, i) == IF i > Len(toks) THEN NoParse ELSE ParseTok(toks, i, toks[i])

\* a list display whose elements so far are acc, after the parse e of its next one
AfterItem(toks, acc, e) ==
    IF ~e.ok \/ e.i > Len(toks) THEN NoParse
    ELSE IF toks[e.i].k = "]" THEN Parsed(ListOf(Append(acc, e.v)), e.i + 1)
    ELSE IF toks[e.i].k = "," THEN ParseItems(toks, e.i + 1, Append(acc, e.v))
    ELSE NoParse

\* the rest of a list display after "[" or after a ",": acc holds its elements
ParseItems(toks, i, acc) ==
    IF i > Len(toks) THEN NoParse
    ELSE IF toks[i].k = "]" THEN Parsed(ListOf(acc), i + 1)
    ELSE AfterItem(toks, acc, ParseExpr(toks, i))

\* a set display whose elements so far are acc, after the parse e of its next one
AfterSetItem(toks, acc, e) ==
    IF ~e.ok \/ e.i > Len(toks) THEN NoParse
    ELSE IF toks[e.i].k = "}" THEN Parsed(SetOf(Append(acc, e.v)), e.i + 1)
    ELSE IF toks[e.i].k = "," THEN ParseSetItems(toks, e.i + 1, Append(acc, e.v))
    ELSE NoParse

\* the rest of a set display after "{" or after a ",": acc holds its elements
ParseSetItems(toks, i, acc) ==
    IF i > Len(toks) THEN NoParse
    ELSE IF toks[i].k = "}" /\ acc # <<>> THEN Parsed(SetOf(acc), i + 1)
    ELSE AfterSetItem(toks, acc, ParseExpr(toks, i))

\* a top-level tuple whose elements so far are acc, after the parse e of its next one
AfterElement(toks, acc, e) ==
    IF ~e.ok THEN NoParse
    ELSE IF e.i > Len(toks) THEN Parsed(TupleOf(Append(acc, e.v)), e.i)
    ELSE IF toks[e.i].k = "," THEN ParseTuple(toks, e.i + 1, Append(acc, e.v))
    ELSE NoParse

\* the rest of a top-level tuple after a ",": acc holds its elements
ParseTuple(toks, i, acc) ==
    IF i > Len(toks) THEN Parsed(TupleOf(acc), i)
    ELSE AfterElement(toks, acc, ParseExpr(toks, i))

\* the whole text after the parse e of its first expression
AfterFirst(toks, e) ==
    IF ~e.ok \/ e.i > Len(toks) THEN e
    ELSE IF toks[e.i].k = "," THEN ParseTuple(toks, e.i + 1, <<e.v>>)
    ELSE NoParse

ParseAll(toks) == AfterFirst(toks, ParseExpr(toks, 1))

Literal(r) ==
    IF ~r.ok THEN Raise("LiteralError")
    ELSE IF r.v.t # "exc" THEN Ok(r.v)
    ELSE IF r.v.s = <<"TypeError">> THEN Raise("TypeError")
    ELSE Raise("LiteralError")

literal_eval(s) == Literal(ParseAll(Lex(s, 1)))

(***************************************************************************)
(* A raw row (csv.DictReader): a function from the column names of the     *)
(* table's header to the cell texts.                                       *)
(***************************************************************************)
\* row.get(key, default)
Get(row, key, default) == IF key \in DOMAIN row THEN row[key] ELSE default

\* row[key]
Item(row, key) == IF key \in DOMAIN row THEN Ok(PyStr(row[key])) ELSE Raise("KeyError")

EmptyListText == <<"[", "]">>

\* except (ValueError, SyntaxError): return []; any other exception escapes
OrEmptyList(r) ==
    IF r.ok THEN r.v
    ELSE IF r.exc = "LiteralError" THEN PyList(<<>>)
    ELSE PyExc(r.exc)

\* a _safe_eval that wraps the raw text of a cell in a one-element list
SafeEvalWrapped(val) ==
    IF val = <<>> THEN PyList(<<>>)
    ELSE IF StartsWith(val, "[") /\ EndsWith(val, "]") THEN OrEmptyList(literal_eval(val))
    ELSE PyList(<<PyStr(val)>>)

\* AbyssalOptimizer._safe_eval: the value it returns, or the exception that
\* escapes it
_safe_eval(val) ==
    IF val = <<>> THEN PyList(<<>>)
    ELSE IF StartsWith(val, "[") /\ EndsWith(val, "]") THEN OrEmptyList(literal_eval(val))
    ELSE PyStr(val)

\* except ValueError: return 0.0
OrZero(r) == IF r.ok THEN r.v.q ELSE RZero

\* AbyssalOptimizer._get_float
_get_float(val) == IF val = <<>> THEN RZero ELSE OrZero(FloatOfText(val))

\* isinstance(x, list)
IsList(x) == x.t = "list"

\* the items of a list, a tuple or a str, as x[i] yields them
Items(x) ==
    IF x.t = "str" THEN [i \in 1..Len(x.s) |-> PyStr(<<x.s[i]>>)] ELSE x.l

\* len(x)
PyLen(x) == IF x.t = "str" THEN Len(x.s) ELSE Len(x.l)

\* an element past the end of x counted as 1
FloatAtOne(x, i) ==
    IF i > PyLen(x) THEN Ok(PyNum(RInt(1)))
    ELSE IF Items(x)[i].t # "none" THEN PyFloat(Items(x)[i])
    ELSE Ok(PyNum(RZero))

\* float(x[i]) if i < len(x) and x[i] is not None else 0   (i counts from 1 here)
FloatAt(x, i) ==
    IF i <= PyLen(x) /\ Items(x)[i].t # "none" THEN PyFloat(Items(x)[i])
    ELSE Ok(PyNum(RZero))

RECURSIVE ValueLoop(_, _, _, _, _)

\* total_value += v * a * p, unless one of the three conversions raised
ValueStep(vals, abund, pur, i, acc, v, a, p) ==
    IF ~v.ok THEN v
    ELSE IF ~a.ok THEN a
    ELSE IF ~p.ok THEN p
    ELSE ValueLoop(vals, abund, pur, i + 1, RAdd(acc, RMul(RMul(v.v.q, a.v.q), p.v.q)))

\* the loop of lines 55-59 from index i on, total_value being acc so far
ValueLoop(vals, abund, pur, i, acc) ==
    IF i > Len(vals.l) THEN Ok(PyNum(acc))
    ELSE ValueStep(vals, abund, pur, i, acc,
                   FloatAt(vals, i), FloatAt(abund, i), FloatAt(pur, i))

\* 1. Resource Value
TotalValue(vals, abund, pur) ==
    IF IsList(vals) THEN ValueLoop(vals, abund, pur, 1, RZero) ELSE Ok(PyNum(RZero))

Floats(qs)    == [ok |-> TRUE,  qs |-> qs,   exc |-> "none"]
NoFloats(exc) == [ok |-> FALSE, qs |-> <<>>, exc |-> exc]

RECURSIVE CleanFloats(_, _, _)

CleanStep(xs, i, acc, f) ==
    IF f.ok THEN CleanFloats(xs, i + 1, Append(acc, f.v.q)) ELSE NoFloats(f.exc)

\* [float(d) for d in xs if d is not None], from index i on: the floats, or the
\* exception of the first element float() rejects
CleanFloats(xs, i, acc) ==
    IF i > Len(xs) THEN Floats(acc)
    ELSE IF xs[i].t = "none" THEN CleanFloats(xs, i + 1, acc)
    ELSE CleanStep(xs, i, acc, PyFloat(xs[i]))

RECURSIVE RSum(_)
RSum(qs) == IF qs = <<>> THEN RZero ELSE RAdd(qs[1], RSum(Tail(qs)))

\* sum(clean_diff) / len(clean_diff) if clean_diff else 0
MeanOf(clean_diff) ==
    IF ~clean_diff.ok THEN Raise(clean_diff.exc)
    ELSE IF clean_diff.qs # <<>>
         THEN Ok(PyNum(RDiv(RSum(clean_diff.qs), RInt(Len(clean_diff.qs)))))
         ELSE Ok(PyNum(RZero))

\* the sum of the elements that are not None over the length of the whole list
DivideBy(clean_diff, n) ==
    IF ~clean_diff.ok THEN Raise(clean_diff.exc)
    ELSE Ok(PyNum(RDiv(RSum(clean_diff.qs), RInt(n))))

AvgDifficultyOverLength(diff_list) ==
    IF IsList(diff_list) /\ diff_list.l # <<>>
    THEN DivideBy(CleanFloats(diff_list.l, 1, <<>>), Len(diff_list.l))
    ELSE Ok(PyNum(RZero))

\* the mean without the guards for an empty list
MeanOrRaise(clean_diff) ==
    IF ~clean_diff.ok THEN Raise(clean_diff.exc)
    ELSE IF clean_diff.qs = <<>> THEN Raise("ZeroDivisionError")
    ELSE Ok(PyNum(RDiv(RSum(clean_diff.qs), RInt(Len(clean_diff.qs)))))

AvgDifficultyUnguarded(diff_list) ==
    IF IsList(diff_list)
    THEN MeanOrRaise(CleanFloats(diff_list.l, 1, <<>>))
    ELSE Ok(PyNum(RZero))

\* 2. Extraction Difficulty
AvgDifficulty(diff_list) ==
    IF IsList(diff_list) /\ diff_list.l # <<>>
    THEN MeanOf(CleanFloats(diff_list.l, 1, <<>>))
    ELSE Ok(PyNum(RZero))

SumOf(clean) == IF clean.ok THEN Ok(PyNum(RSum(clean.qs))) ELSE Raise(clean.exc)

\* sum([float(i) for i in x if i is not None]) if isinstance(x, list) else 0
FloatSum(x) ==
    IF IsList(x) THEN SumOf(CleanFloats(x.l, 1, <<>>)) ELSE Ok(PyNum(RZero))

\* the coral cover added without its division by 10
TotalEnvImpactUnscaled(res_impact, coral_cover, life_density, threat_level_sum) ==
    RAdd(RAdd(RAdd(res_impact, coral_cover), RMul(life_density, RInt(10))),
         RMul(threat_level_sum, RInt(5)))

\* 3. Environmental Impact
TotalEnvImpact(res_impact, coral_cover, life_density, threat_level_sum) ==
    RAdd(RAdd(RAdd(res_impact, RDiv(coral_cover, RInt(10))),
              RMul(life_density, RInt(10))),
         RMul(threat_level_sum, RInt(5)))

\* the labels of severity_map
LOW     == <<"l", "o", "w">>
MEDIUM  == <<"m", "e", "d", "i", "u", "m">>
HIGH    == <<"h", "i", "g", "h">>
EXTREME == <<"e", "x", "t", "r", "e", "m", "e">>

severity_map == (LOW :> 1) @@ (MEDIUM :> 2) @@ (HIGH :> 3) @@ (EXTREME :> 5)

\* h in severity_map, for a hashable h
InSeverityMap(h) == h.t = "str" /\ h.s \in DOMAIN severity_map

\* the loop of lines 96-98 from index i on
RECURSIVE HazardLoop(_, _, _)
HazardLoop(hs, i, acc) ==
    IF i > Len(hs) THEN Ok(PyNum(RInt(acc)))
    ELSE IF ~Hashable(hs[i]) THEN Raise("TypeError")
    ELSE IF InSeverityMap(hs[i]) THEN HazardLoop(hs, i + 1, acc + severity_map[hs[i].s])
    ELSE HazardLoop(hs, i + 1, acc)

\* 4. Hazards
HazardScore(hazard_severity_list) ==
    IF IsList(hazard_severity_list)
    THEN HazardLoop(hazard_severity_list.l, 1, 0)
    ELSE Ok(PyNum(RZero))

\* a score clamped at zero
FinalScoreClamped(total_value, avg_difficulty, total_env_impact, hazard_score, weights) ==
    IF RLess(RSub(RSub(RSub(RMul(total_value, weights.value),
                            RMul(avg_difficulty, weights.difficulty)),
                       RMul(total_env_impact, weights.impact)),
                  RMul(hazard_score, weights.hazard)), RZero)
    THEN RZero
    ELSE RSub(RSub(RSub(RMul(total_value, weights.value),
                        RMul(avg_difficulty, weights.difficulty)),
                   RMul(total_env_impact, weights.impact)),
              RMul(hazard_score, weights.hazard))

\* Final Score
FinalScore(total_value, avg_difficulty, total_env_impact, hazard_score, weights) ==
    RSub(RSub(RSub(RMul(total_value, weights.value),
                   RMul(avg_difficulty, weights.difficulty)),
              RMul(total_env_impact, weights.impact)),
         RMul(hazard_score, weights.hazard))

\* int(x) and float(x) of the outcome x of row[key]
IntOf(x)   == IF x.ok THEN IntOfText(x.v.s) ELSE x
FloatOf(x) == IF x.ok THEN FloatOfText(x.v.s) ELSE x

\* int(row[key]) and float(row[key]) of lines 113-120
IntItem(row, key)   == IntOf(Item(row, key))
FloatItem(row, key) == FloatOf(Item(row, key))

\* self._safe_eval(row.get(key, '[]'))
Collection(row, key) == _safe_eval(Get(row, key, EmptyListText))

\* the outcome of a call of _safe_eval
Evaluated(x) == IF x.t = "exc" THEN Raise(x.s[1]) ELSE Ok(x)

\* the outcomes of the calls of _safe_eval of one row (lines 48-50, 62, 70, 78, 84,
\* 93, 108-110)
Collections(row) ==
    [res_values     |-> Evaluated(Collection(row, "resource_economic_value")),
     res_abundance  |-> Evaluated(Collection(row, "resource_abundance")),
     res_purity     |-> Evaluated(Collection(row, "resource_purity")),
     diff_list      |-> Evaluated(Collection(row, "resource_extraction_difficulty")),
     res_impact     |-> Evaluated(Collection(row, "resource_environmental_impact")),
     life_density   |-> Evaluated(Collection(row, "life_density")),
     threat_level   |-> Evaluated(Collection(row, "life_threat_level")),
     hazard_severity |-> Evaluated(Collection(row, "hazard_severity")),
     hazards        |-> Evaluated(Collection(row, "hazard_type")),
     resources      |-> Evaluated(Collection(row, "resource_type")),
     life           |-> Evaluated(Collection(row, "life_species"))]

\* the sub-metrics of one row (lines 47-98), each a value or the exception raised
SubMetrics(row) ==
    [total_value      |-> TotalValue(Collection(row, "resource_economic_value"),
                                     Collection(row, "resource_abundance"),
                                     Collection(row, "resource_purity")),
     avg_difficulty   |-> AvgDifficulty(Collection(row, "resource_extraction_difficulty")),
     res_impact       |-> FloatSum(Collection(row, "resource_environmental_impact")),
     coral_cover      |-> _get_float(Get(row, "coral_coral_cover_pct", <<"0">>)),
     life_density     |-> FloatSum(Collection(row, "life_density")),
     threat_level_sum |-> FloatSum(Collection(row, "life_threat_level")),
     hazard_score     |-> HazardScore(Collection(row, "hazard_severity"))]

\* the converted scalar columns of one row (lines 113-120)
Scalars(row) ==
    [row      |-> IntItem(row, "row"),
     col      |-> IntItem(row, "col"),
     lat      |-> FloatItem(row, "lat"),
     lon      |-> FloatItem(row, "lon"),
     depth    |-> FloatItem(row, "depth_m"),
     biome    |-> Item(row, "biome"),
     pressure |-> FloatItem(row, "pressure_atm"),
     temp     |-> FloatItem(row, "temperature_c")]

\* the first exception of a sequence of outcomes evaluated in order, "none" if none
RECURSIVE FirstExc(_)
FirstExc(outs) ==
    IF outs = <<>> THEN "none"
    ELSE IF ~outs[1].ok THEN outs[1].exc ELSE FirstExc(Tail(outs))

\* the exception one iteration raises, in the order the code evaluates
ExcInOrder(c, m, f) ==
    FirstExc(<<c.res_values, c.res_abundance, c.res_purity, m.total_value,
               c.diff_list, m.avg_difficulty, c.res_impact, m.res_impact,
               c.life_density, m.life_density, c.threat_level, m.threat_level_sum,
               c.hazard_severity, m.hazard_score, c.hazards, c.resources, c.life,
               f.row, f.col, f.lat, f.lon, f.depth, f.biome, f.pressure, f.temp>>)

RowExc(row, m, f) == ExcInOrder(Collections(row), m, f)

\* the dict appended at lines 112-133; idx is an auxiliary field naming the input
\* row the record came from
ScoredRecord(row, weights, idx, m, f, total_env_impact) ==
    [idx          |-> idx,
     row          |-> f.row.v.q[1],
     col          |-> f.col.v.q[1],
     lat          |-> f.lat.v.q,
     lon          |-> f.lon.v.q,
     depth        |-> f.depth.v.q,
     biome        |-> f.biome.v.s,
     pressure     |-> f.pressure.v.q,
     temp         |-> f.temp.v.q,
     score        |-> FinalScore(m.total_value.v.q, m.avg_difficulty.v.q,
                                 total_env_impact, m.hazard_score.v.q, weights),
     total_value  |-> m.total_value.v.q,
     difficulty   |-> m.avg_difficulty.v.q,
     env_impact   |-> total_env_impact,
     hazard_score |-> m.hazard_score.v.q,
     hazards      |-> Collection(row, "hazard_type"),
     resources    |-> Collection(row, "resource_type"),
     life         |-> Collection(row, "life_species")]

Iteration(row, weights, idx, m, f, exc) ==
    IF exc # "none" THEN [ok |-> FALSE, exc |-> exc]
    ELSE [ok  |-> TRUE,
          exc |-> "none",
          rec |-> ScoredRecord(row, weights, idx, m, f,
                               TotalEnvImpact(m.res_impact.v.q, m.coral_cover,
                                              m.life_density.v.q,
                                              m.threat_level_sum.v.q))]

IterationOf(row, weights, idx, m, f) ==
    Iteration(row, weights, idx, m, f, RowExc(row, m, f))

\* One iteration of the loop of calculate_scores (lines 46-133) on data[idx]:
\* the record it appends, or the exception it raises
ScoreRow(row, weights, idx) ==
    IterationOf(row, weights, idx, SubMetrics(row), Scalars(row))

RECURSIVE ScoreLoop(_, _, _, _)

\* a loop that keeps one record per (row, col)
LoopStepDedup(rows, weights, i, acc, r) ==
    IF ~r.ok THEN [recs |-> acc, exc |-> r.exc]
    ELSE IF \E k \in 1..Len(acc) : acc[k].row = r.rec.row /\ acc[k].col = r.rec.col
         THEN ScoreLoop(rows, weights, i + 1, acc)
         ELSE ScoreLoop(rows, weights, i + 1, Append(acc, r.rec))

LoopStep(rows, weights, i, acc, r) ==
    IF r.ok THEN ScoreLoop(rows, weights, i + 1, Append(acc, r.rec))
    ELSE [recs |-> acc, exc |-> r.exc]

\* the loop "for row in self.data" from index i on: the records appended so far
\* and the exception that ended it, "none" if it ran to the end
ScoreLoop(rows, weights, i, acc) ==
    IF i > Len(rows) THEN [recs |-> acc, exc |-> "none"]
    ELSE LoopStep(rows, weights, i, acc, ScoreRow(rows[i], weights, i))

\* a sort that is not stable: x goes before the records of its own score
RECURSIVE InsertBeforeEqual(_, _)
InsertBeforeEqual(sorted, x) ==
    IF sorted = <<>> THEN <<x>>
    ELSE IF ~RLess(x.score, sorted[1].score) THEN <<x>> \o sorted
    ELSE <<sorted[1]>> \o InsertBeforeEqual(Tail(sorted), x)

\* x placed in a list already in descending score order, after every record
\* whose score is not lower than its own
RECURSIVE InsertDesc(_, _)
InsertDesc(sorted, x) ==
    IF sorted = <<>> THEN <<x>>
    ELSE IF RLess(sorted[1].score, x.score) THEN <<x>> \o sorted
    ELSE <<sorted[1]>> \o InsertDesc(Tail(sorted), x)

\* list.sort(key=lambda x: x['score'], reverse=True): descending and stable
RECURSIVE SortInto(_, _)
SortInto(sorted, rest) ==
    IF rest = <<>> THEN sorted ELSE SortInto(InsertDesc(sorted, rest[1]), Tail(rest))

\* the sort without reverse=True
RECURSIVE InsertAsc(_, _)
InsertAsc(sorted, x) ==
    IF sorted = <<>> THEN <<x>>
    ELSE IF RLess(x.score, sorted[1].score) THEN <<x>> \o sorted
    ELSE <<sorted[1]>> \o InsertAsc(Tail(sorted), x)

RECURSIVE SortAscInto(_, _)
SortAscInto(sorted, rest) ==
    IF rest = <<>> THEN sorted ELSE SortAscInto(InsertAsc(sorted, rest[1]), Tail(rest))

SortByScoreAsc(recs) == SortAscInto(<<>>, recs)

SortByScoreDesc(recs) == SortInto(<<>>, recs)

(***************************************************************************)
(* The input tables                                                        *)
(***************************************************************************)
MaxLen  == 2    \* the longest list literal enumerated in a collection cell
MaxRows == 2    \* the most data rows of an enumerated multi-row table

\* the texts e1, e2, ... written one after another, separated by ", "
RECURSIVE Join(_)
Join(es) ==
    IF es = <<>> THEN <<>>
    ELSE IF Len(es) = 1 THEN es[1]
    ELSE es[1] \o <<",", " ">> \o Join(Tail(es))

\* the list literal "[e1, e2, ...]"
Lit(es) == <<"[">> \o Join(es) \o <<"]">>

Quoted(s) == <<"'">> \o s \o <<"'">>

SeqsUpTo(S, n) == UNION {[1..k -> S] : k \in 0..n}

\* every list literal of at most MaxLen elements taken from the element texts E
Lits(E) == {Lit(es) : es \in SeqsUpTo(E, MaxLen)}

NONE == <<"N", "o", "n", "e">>

\* a well-formed row of the merged table: every column present, no entries in
\* any collection column
BaseRow ==
    [row |-> <<"1">>, col |-> <<"2">>, lat |-> <<"1", ".", "5">>, lon |-> <<"2">>,
     depth_m |-> <<"9">>, biome |-> <<"r">>, pressure_atm |-> <<"3">>,
     temperature_c |-> <<"4">>, coral_coral_cover_pct |-> <<"5">>,
     resource_economic_value |-> <<>>, resource_abundance |-> <<>>,
     resource_purity |-> <<>>, resource_extraction_difficulty |-> <<>>,
     resource_environmental_impact |-> <<>>, life_density |-> <<>>,
     life_threat_level |-> <<>>, hazard_severity |-> <<>>, hazard_type |-> <<>>,
     resource_type |-> <<>>, life_species |-> <<>>]

With(row, key, text) == [row EXCEPT ![key] = text]
Without(row, key)    == [k \in DOMAIN row \ {key} |-> row[k]]

\* collection cells that are not a plain list of numbers
OddTexts ==
    { Lit(<<Quoted(<<"x">>)>>),                  \* ['x']       a non-numeric entry
      Lit(<<<<"4">>, Quoted(<<"x">>), <<"6">>>>),\* [4, 'x', 6]
      Lit(<<Quoted(<<"3">>)>>),                  \* ['3']       a numeric string
      Lit(<<Lit(<<<<"4">>>>)>>),                 \* [[4]]       a nested literal
      <<"[", "4", "]", ",", "[", "6", "]">>,     \* [4],[6]     a tuple of lists
      <<"[", "4">>,                              \* [4          not closed
      <<" ", "[", "4", "]">>,                    \* " [4]"      leading whitespace
      <<"[", "4", "]", " ">>,                    \* "[4] "      trailing whitespace
      <<"1", "2">>,                              \* 12          a plain scalar
      <<"x">>,                                   \* x           plain text
      <<"[", "4", ",", ",", "]">>,               \* [4,,]       a malformed literal
      <<"[", "x", "]">>,                         \* [x]         a bare name
      Lit(<<<<"-", "1", ".", "5">>>>),           \* [-1.5]
      <<"[", "{", "4", "}", "]">>,               \* [{4}]       a set entry
      <<"[", "{", "[", "4", "]", "}", "]">> }    \* [{[4]}]     a set of a list

\* rows that differ in the three resource columns of total_value: every pair of
\* a value list and an abundance list next to a full purity list, and every pair
\* of a value list and a purity list next to a full abundance list
ResourceRows ==
    { [BaseRow EXCEPT !["resource_economic_value"] = v,
                      !["resource_abundance"] = a,
                      !["resource_purity"] = Lit([i \in 1..MaxLen |-> <<"7">>])] :
        v \in Lits({<<"2">>, <<"3">>}),
        a \in Lits({<<"5">>, NONE}) }
    \cup
    { [BaseRow EXCEPT !["resource_economic_value"] = v,
                      !["resource_abundance"] = Lit([i \in 1..MaxLen |-> <<"5">>]),
                      !["resource_purity"] = u] :
        v \in Lits({<<"2">>, <<"3">>}),
        u \in Lits({<<"7">>, NONE}) }

FullResourceRow ==
    [BaseRow EXCEPT !["resource_economic_value"] = Lit(<<<<"2">>, <<"3">>>>),
                    !["resource_abundance"] = Lit(<<<<"5">>, <<"5">>>>),
                    !["resource_purity"] = Lit(<<<<"7">>, <<"7">>>>)]

OddResourceRows ==
    { With(FullResourceRow, k, t) :
        k \in {"resource_economic_value", "resource_abundance", "resource_purity"},
        t \in OddTexts }

NumericColumns ==
    {"resource_extraction_difficulty", "resource_environmental_impact",
     "life_density", "life_threat_level"}

\* rows that differ in one numeric collection column
NumericRows ==
    { With(BaseRow, k, t) :
        k \in NumericColumns, t \in Lits({<<"4">>, <<"6">>, NONE}) \cup OddTexts }

HazardEntries ==
    { Quoted(LOW), Quoted(MEDIUM), Quoted(HIGH), Quoted(EXTREME),
      Quoted(<<"H", "i", "g", "h">>),       \* a differently-cased label
      Quoted(<<"x">>),                      \* an unknown label
      <<"7">>,                              \* a number
      Lit(<<Quoted(HIGH)>>) }               \* a nested literal

\* rows that differ in hazard_severity
HazardRows ==
    { With(BaseRow, "hazard_severity", t) :
        t \in Lits(HazardEntries)
              \cup { HIGH,                                          \* high
                     Lit(<<Quoted(LOW)>>) \o <<",">> \o Lit(<<Quoted(HIGH)>>),
                     Lit(<<LOW>>) } }                               \* [low]

ScalarColumns ==
    {"row", "col", "lat", "lon", "depth_m", "pressure_atm", "temperature_c",
     "coral_coral_cover_pct", "biome"}

ScalarTexts ==
    { <<>>, <<"x">>, <<"2", ".", "5">>, <<" ", "7", " ">>, <<"-", "3">>, <<"2", "0">> }

\* rows that differ in one scalar column: the column missing, or another text
ScalarRows ==
    { With(BaseRow, k, t) : k \in ScalarColumns, t \in ScalarTexts }
    \cup { Without(BaseRow, k) : k \in ScalarColumns }

\* the scenario of section 8 of the specification: value 10.0 * 2.0 * 0.5,
\* difficulty 5.0, hazards high and low, no environmental term
ScenarioRow ==
    [BaseRow EXCEPT !["resource_economic_value"] = Lit(<<<<"1", "0", ".", "0">>>>),
                    !["resource_abundance"] = Lit(<<<<"2", ".", "0">>>>),
                    !["resource_purity"] = Lit(<<<<"0", ".", "5">>>>),
                    !["resource_extraction_difficulty"] =
                        Lit(<<<<"4", ".", "0">>, <<"6", ".", "0">>>>),
                    !["hazard_severity"] = Lit(<<Quoted(HIGH), Quoted(LOW)>>),
                    !["coral_coral_cover_pct"] = <<"0">>]

\* a row with entries in every collection column
RichRow ==
    [ScenarioRow EXCEPT !["resource_environmental_impact"] = Lit(<<<<"1", ".", "5">>>>),
                        !["life_density"] = Lit(<<<<"2">>, NONE>>),
                        !["life_threat_level"] = Lit(<<<<"1">>, <<"3">>>>),
                        !["coral_coral_cover_pct"] = <<"2", "5">>,
                        !["hazard_type"] = Lit(<<Quoted(<<"t">>)>>),
                        !["resource_type"] = Lit(<<Quoted(<<"g">>)>>),
                        !["life_species"] = Lit(<<Quoted(<<"e", "e", "l">>)>>)]

LabelColumns == {"hazard_type", "resource_type", "life_species"}

\* rows that differ in one of the label columns copied into the record
LabelRows ==
    { With(BaseRow, k, t) :
        k \in LabelColumns, t \in OddTexts \cup Lits({Quoted(<<"t">>)}) }

CollectionColumns ==
    {"resource_economic_value", "resource_abundance", "resource_purity"}
    \cup NumericColumns \cup {"hazard_severity"} \cup LabelColumns

\* rows without entries: every collection column absent from the table, every
\* collection cell "[]", and the two mixed with empty cells
EmptyRows ==
    { [k \in DOMAIN BaseRow \ absent |->
          IF k \in brackets THEN EmptyListText ELSE BaseRow[k]] :
        absent \in {{}, CollectionColumns, NumericColumns},
        brackets \in {{}, CollectionColumns, LabelColumns \cup {"hazard_severity"}} }

CellRows == ResourceRows \cup OddResourceRows \cup NumericRows \cup HazardRows
            \cup ScalarRows \cup LabelRows \cup EmptyRows \cup {ScenarioRow, RichRow}

\* the rows of the multi-row tables: cells 1..3 score alike under every weight
\* vector, cell 4 and cell 5 score differently, and cell 6 has no latitude
RowPool ==
    { With(FullResourceRow, "row", <<"1">>),
      With(FullResourceRow, "row", <<"2">>),
      With(With(FullResourceRow, "row", <<"3">>), "biome", <<"m">>),
      With(With(BaseRow, "row", <<"4">>), "hazard_severity", Lit(<<Quoted(HIGH)>>)),
      With(With(BaseRow, "row", <<"5">>), "resource_extraction_difficulty",
           Lit(<<<<"4">>, <<"6">>>>)),
      With(With(BaseRow, "row", <<"6">>), "lat", <<>>) }

Tables == UNION {[1..n -> RowPool] : n \in 0..MaxRows} \cup {<<r>> : r \in CellRows}

\* the weight vectors passed to calculate_scores
W(v, d, i, h) == [value |-> v, difficulty |-> d, impact |-> i, hazard |-> h]

WeightSet ==
    { W(RInt(1), RInt(1), RInt(2), RInt(2)),      \* the defaults of /api/grid
      W(RZero, RZero, RZero, RZero),
      W(RInt(-2), RInt(3), Rat(-1, 2), RZero) }

(***************************************************************************)
(* The command-line variant, mining_optimizer.py.  Its sub-metrics and its *)
(* score are computed by the same statements as the engine's; its record   *)
(* keeps the scalar columns as the texts of the row.                       *)
(***************************************************************************)
\* the exception one iteration of the variant raises, in the order it evaluates
MiningExcInOrder(c, m, row) ==
    FirstExc(<<c.res_values, c.res_abundance, c.res_purity, m.total_value,
               c.diff_list, m.avg_difficulty, c.res_impact, m.res_impact,
               c.life_density, m.life_density, c.threat_level, m.threat_level_sum,
               c.hazard_severity, m.hazard_score, Item(row, "row"), Item(row, "col")>>)

\* the dict appended by the variant; idx names the input row
MiningRecord(row, weights, idx, m, total_env_impact) ==
    [idx          |-> idx,
     row          |-> row["row"],
     col          |-> row["col"],
     lat          |-> Get(row, "lat", <<"0", ".", "0">>),
     lon          |-> Get(row, "lon", <<"0", ".", "0">>),
     score        |-> FinalScore(m.total_value.v.q, m.avg_difficulty.v.q,
                                 total_env_impact, m.hazard_score.v.q, weights),
     total_value  |-> m.total_value.v.q,
     difficulty   |-> m.avg_difficulty.v.q,
     env_impact   |-> total_env_impact,
     hazard_score |-> m.hazard_score.v.q,
     depth        |-> Get(row, "depth_m", <<"0">>),
     biome        |-> Get(row, "biome", <<"u", "n", "k", "n", "o", "w", "n">>)]

MiningIteration(row, weights, idx, m, exc) ==
    IF exc # "none" THEN [ok |-> FALSE, exc |-> exc]
    ELSE [ok  |-> TRUE,
          exc |-> "none",
          rec |-> MiningRecord(row, weights, idx, m,
                               TotalEnvImpact(m.res_impact.v.q, m.coral_cover,
                                              m.life_density.v.q,
                                              m.threat_level_sum.v.q))]

MiningIterationOf(row, weights, idx, m) ==
    MiningIteration(row, weights, idx, m, MiningExcInOrder(Collections(row), m, row))

\* one iteration of the loop of the variant's calculate_scores
MiningScoreRow(row, weights, idx) == MiningIterationOf(row, weights, idx, SubMetrics(row))

RECURSIVE MiningScoreLoop(_, _, _, _)

MiningLoopStep(rows, weights, i, acc, r) ==
    IF r.ok THEN MiningScoreLoop(rows, weights, i + 1, Append(acc, r.rec))
    ELSE [recs |-> acc, exc |-> r.exc]

\* the loop "for row in self.data" of the variant from index i on
MiningScoreLoop(rows, weights, i, acc) ==
    IF i > Len(rows) THEN [recs |-> acc, exc |-> "none"]
    ELSE MiningLoopStep(rows, weights, i, acc, MiningScoreRow(rows[i], weights, i))

(***************************************************************************)
(* The optimizer object and the file it reads                              *)
(***************************************************************************)
MaxCalls == 2   \* calls of calculate_scores counted on one optimizer object

VARIABLES
    file,         \* the file at self.filepath: its state and its data rows
    data,         \* self.data
    scored_data,  \* self.scored_data
    result,       \* the last call: its name, its weights, what it returned or raised
    calls,        \* how many calls of calculate_scores the object has seen
    mining_data,          \* self.data of the command-line variant's object
    mining_scored_data,   \* its self.scored_data
    mining_result,        \* the last run of its main()
    tool_messages,        \* the chat agent's tool outputs not yet streamed
    stream                \* the events generate_response has yielded

optimizer_vars == <<data, scored_data, result, calls>>
mining_vars    == <<mining_data, mining_scored_data, mining_result>>
chat_vars      == <<tool_messages, stream>>

vars == <<file, optimizer_vars, mining_vars, chat_vars>>

NoWeights == W(RZero, RZero, RZero, RZero)

Result(op, w, ret, exc) == [op |-> op, w |-> w, ret |-> ret, exc |-> exc]

Files ==
    [state : {"present"}, rows : Tables]
    \cup [state : {"missing", "unreadable"}, rows : {<<>>}]

\* AbyssalOptimizer.__init__ of both variants; no chat in progress
Init ==
    /\ file \in Files
    /\ data = <<>>
    /\ scored_data = <<>>
    /\ result = Result("__init__", NoWeights, "None", "none")
    /\ calls = 0
    /\ mining_data = <<>>
    /\ mining_scored_data = <<>>
    /\ mining_result = Result("__init__", NoWeights, "None", "none")
    /\ tool_messages = <<>>
    /\ stream = <<>>

\* AbyssalOptimizer.load_data
LoadData ==
    /\ \/ /\ file.state = "present"
          /\ data' = file.rows
          /\ result' = Result("load_data", NoWeights, "True", "none")
       \/ /\ file.state = "missing"
          /\ data' = data
          /\ result' = Result("load_data", NoWeights, "False", "none")
       \/ /\ file.state = "unreadable"
          /\ data' = data
          /\ result' = Result("load_data", NoWeights, "None", "PermissionError")
    /\ UNCHANGED <<file, scored_data, calls, mining_vars, chat_vars>>

\* calculate_scores without the reset of self.scored_data at its start
CalculateScoresAccumulating(weights) ==
    \E run \in {ScoreLoop(data, weights, 1, scored_data)} :
        /\ scored_data' = IF run.exc = "none" THEN SortByScoreDesc(run.recs)
                          ELSE run.recs
        /\ result' = Result("calculate_scores", weights,
                            IF run.exc = "none" THEN "scored_data" ELSE "None",
                            run.exc)
        /\ calls' = IF calls < MaxCalls THEN calls + 1 ELSE calls
        /\ UNCHANGED <<file, data, mining_vars, chat_vars>>

\* AbyssalOptimizer.calculate_scores: run is the loop over self.data; the sort and
\* the return are reached only when no iteration raised
CalculateScores(weights) ==
    \E run \in {ScoreLoop(data, weights, 1, <<>>)} :
        /\ scored_data' = IF run.exc = "none" THEN SortByScoreDesc(run.recs)
                          ELSE run.recs
        /\ result' = Result("calculate_scores", weights,
                            IF run.exc = "none" THEN "scored_data" ELSE "None",
                            run.exc)
        /\ calls' = IF calls < MaxCalls THEN calls + 1 ELSE calls
        /\ UNCHANGED <<file, data, mining_vars, chat_vars>>

Next ==
    \/ LoadData
    \/ \E weights \in WeightSet : CalculateScores(weights)

Spec == Init /\ [][Next]_vars

\* main() of mining_optimizer.py: a new object, load_data, and calculate_scores
\* when load_data returned True
MiningMain(weights) ==
    /\ \/ /\ file.state = "present"
          /\ \E run \in {MiningScoreLoop(file.rows, weights, 1, <<>>)} :
                /\ mining_data' = file.rows
                /\ mining_scored_data' = IF run.exc = "none"
                                         THEN SortByScoreDesc(run.recs)
                                         ELSE run.recs
                /\ mining_result' = Result("main", weights,
                                           IF run.exc = "none" THEN "scored_data"
                                           ELSE "None",
                                           run.exc)
       \/ /\ file.state = "missing"
          /\ mining_data' = <<>>
          /\ mining_scored_data' = <<>>
          /\ mining_result' = Result("main", weights, "False", "none")
       \/ /\ file.state = "unreadable"
          /\ mining_data' = <<>>
          /\ mining_scored_data' = <<>>
          /\ mining_result' = Result("main", weights, "None", "PermissionError")
    /\ UNCHANGED <<file, optimizer_vars, chat_vars>>

\* the tables on which the two variants are run side by side: the multi-row
\* tables and the one-row tables with an odd cell, a scalar cell, a label cell or
\* no entries
VariantTables ==
    UNION {[1..n -> RowPool] : n \in 0..MaxRows}
    \cup {<<r>> : r \in OddResourceRows \cup ScalarRows \cup LabelRows \cup EmptyRows
                         \cup {ScenarioRow, RichRow}}

VariantInit == Init /\ file.rows \in VariantTables

\* the two variants side by side on one file
VariantNext ==
    \/ LoadData
    \/ \E weights \in WeightSet : CalculateScores(weights)
    \/ \E weights \in WeightSet : MiningMain(weights)

VariantSpec == VariantInit /\ [][VariantNext]_vars

(***************************************************************************)
(* The chat agent's highlight tools and the response stream, tools.py and   *)
(* main.py.  The output of a tool is a string: a literal text followed, for *)
(* a tile list, by the repr of the list.  A message holds the tool's name,  *)
(* the literal text up to its first colon, and the tiles printed after it   *)
(* (none for a status text).                                                *)
(***************************************************************************)
MaxTiles    == 2    \* the most tiles passed to one tool call
MaxMessages == 1    \* tool outputs waiting to be streamed
MaxEvents   == 2    \* events of one response

TileKeys == {"row", "col", "color"}

\* the tiles a tool is called with: any of row, col and color may be missing
Tiles ==
    { [k \in keys |-> full[k]] :
        full \in {[row |-> r, col |-> 3, color |-> "red"] : r \in 1..2},
        keys \in SUBSET TileKeys }

TileLists == UNION {[1..n -> Tiles] : n \in 0..MaxTiles}

HasRowCol(tile) == "row" \in DOMAIN tile /\ "col" \in DOMAIN tile

\* t = {'row': int(tile['row']), 'col': int(tile['col'])}, plus the colour if any;
\* the coordinates are integers already
ValidatedTile(tile) ==
    IF "color" \in DOMAIN tile
    THEN [row |-> tile.row, col |-> tile.col, color |-> tile.color]
    ELSE [row |-> tile.row, col |-> tile.col]

EachValidated(kept) == [i \in DOMAIN kept |-> ValidatedTile(kept[i])]

\* the loop that fills validated_tiles
ValidatedTiles(tiles) == EachValidated(SelectSeq(tiles, HasRowCol))

Message(tool, text, tiles) == [tool |-> tool, text |-> text, tiles |-> tiles]

HIGHLIGHT_PREFIX == <<"H", "I", "G", "H", "L", "I", "G", "H", "T", ":">>
ERROR_PREFIX     == <<"E", "R", "R", "O", "R", ":">>
SUCCESS_PREFIX   == <<"S", "U", "C", "C", "E", "S", "S", ":">>
NoTilesText      == <<"E", "r", "r", "o", "r", ":">>

\* the string a tool returns for its validated tiles
Returning(tool, prefix, none, validated_tiles) ==
    IF Len(validated_tiles) = 0 THEN Message(tool, none, <<>>)
    ELSE Message(tool, prefix, validated_tiles)

\* tools.highlight_tiles: str(validated_tiles), or the error text
highlight_tiles(tiles) ==
    Returning("highlight_tiles", <<>>, NoTilesText, ValidatedTiles(tiles))

\* what the code passed to query_and_highlight leaves: it raised, it assigned no
\* result_rows, it assigned something that is no list, or it assigned a list
QueryOutcomes ==
    [kind : {"raised", "unassigned", "not_list"}, result_rows : {<<>>}]
    \cup [kind : {"list"}, result_rows : TileLists]

\* tools.query_and_highlight: "HIGHLIGHT:" + str(validated_tiles), or a status text
query_and_highlight(local) ==
    IF local.kind # "list" THEN Message("query_and_highlight", ERROR_PREFIX, <<>>)
    ELSE IF Len(local.result_rows) = 0
         THEN Message("query_and_highlight", SUCCESS_PREFIX, <<>>)
    ELSE Returning("query_and_highlight", HIGHLIGHT_PREFIX, ERROR_PREFIX,
                   ValidatedTiles(local.result_rows))

\* content.startswith("HIGHLIGHT:")
IsHighlight(content) ==
    /\ Len(content.text) >= Len(HIGHLIGHT_PREFIX)
    /\ SubSeq(content.text, 1, Len(HIGHLIGHT_PREFIX)) = HIGHLIGHT_PREFIX

Event(type, tiles) == [type |-> type, tiles |-> tiles]

\* what generate_response yields for the text of a tools-node message: a highlight
\* event for a prefixed, non-empty tile list, nothing otherwise
Yielded(content) ==
    IF IsHighlight(content) /\ Len(content.tiles) > 0
    THEN <<Event("highlight", content.tiles)>>
    ELSE <<>>

\* room for one more message of the response
Room == Len(tool_messages) < MaxMessages /\ Len(stream) + Len(tool_messages) < MaxEvents

\* the agent calls highlight_tiles
HighlightTiles(tiles) ==
    /\ Room
    /\ tool_messages' = Append(tool_messages, highlight_tiles(tiles))
    /\ UNCHANGED <<file, optimizer_vars, mining_vars, stream>>

\* the agent calls query_and_highlight
QueryAndHighlight(local) ==
    /\ Room
    /\ tool_messages' = Append(tool_messages, query_and_highlight(local))
    /\ UNCHANGED <<file, optimizer_vars, mining_vars, stream>>

\* generate_response on a text of the model node
ModelText ==
    /\ Len(stream) + Len(tool_messages) < MaxEvents
    /\ stream' = Append(stream, Event("text", <<>>))
    /\ UNCHANGED <<file, optimizer_vars, mining_vars, tool_messages>>

\* generate_response on the text of a tools-node message
StreamToolOutput ==
    /\ tool_messages # <<>>
    /\ stream' = stream \o Yielded(Head(tool_messages))
    /\ tool_messages' = Tail(tool_messages)
    /\ UNCHANGED <<file, optimizer_vars, mining_vars>>

ChatInit == Init /\ file.state = "missing"

ChatNext ==
    \/ \E tiles \in TileLists : HighlightTiles(tiles)
    \/ \E local \in QueryOutcomes : QueryAndHighlight(local)
    \/ ModelText
    \/ StreamToolOutput

\* the response generator consumes every message the agent's stream delivers
ChatSpec == ChatInit /\ [][ChatNext]_vars /\ WF_vars(StreamToolOutput)

(***************************************************************************)
(* Properties                                                              *)
(***************************************************************************)
\* the last call was calculate_scores and it returned self.scored_data
Returned == result.op = "calculate_scores" /\ result.exc = "none"

Positions == 1..Len(scored_data)

SameScore(a, b) == ~RLess(a.score, b.score) /\ ~RLess(b.score, a.score)

C2_Stable ==
    Returned =>
        \A i, j \in Positions :
            (i < j /\ SameScore(scored_data[i], scored_data[j]))
                => scored_data[i].idx < scored_data[j].idx

\* C2 witness: a returned ranking holding two distinct cells of equal score
C2_Witness ==
    /\ Returned
    /\ \E i, j \in Positions :
          /\ i < j
          /\ SameScore(scored_data[i], scored_data[j])
          /\ scored_data[i].row # scored_data[j].row

\* C3: the ranker filters nothing: the output of calculate_scores holds exactly
\* one record per input row, the record of that row, (row, col) duplicates included
C3_NoFiltering ==
    Returned =>
        /\ Len(scored_data) = Len(data)
        /\ \A k \in 1..Len(data) :
              /\ Cardinality({i \in Positions : scored_data[i].idx = k}) = 1
              /\ \A i \in Positions :
                    scored_data[i].idx = k =>
                        /\ IntOfText(data[k].row) = Ok(PyNum(RInt(scored_data[i].row)))
                        /\ IntOfText(data[k].col) = Ok(PyNum(RInt(scored_data[i].col)))
                        /\ data[k].biome = scored_data[i].biome

\* C3 witness: a returned output holding two records of the same (row, col)
C3_Witness ==
    /\ Returned
    /\ \E i, j \in Positions :
          /\ i # j
          /\ scored_data[i].row = scored_data[j].row
          /\ scored_data[i].col = scored_data[j].col

\* C4: every record's score is value_weight * total_value - difficulty_weight *
\* difficulty - impact_weight * env_impact - hazard_weight * hazard_score, for zero
\* and negative weights too, neither clamped nor normalised
C4_ScoreFormula ==
    result.op = "calculate_scores" =>
      \A i \in Positions :
        scored_data[i].score =
            RSub(RSub(RSub(RMul(result.w.value, scored_data[i].total_value),
                           RMul(result.w.difficulty, scored_data[i].difficulty)),
                      RMul(result.w.impact, scored_data[i].env_impact)),
                 RMul(result.w.hazard, scored_data[i].hazard_score))

\* C4 witness: a negative score, of a record whose four sub-metrics are all
\* non-zero, under a weight vector with a negative and a zero weight
C4_Witness ==
    /\ Returned
    /\ RLess(result.w.value, RZero)
    /\ result.w.hazard = RZero
    /\ \E i \in Positions :
          /\ RLess(scored_data[i].score, RZero)
          /\ scored_data[i].total_value # RZero
          /\ scored_data[i].difficulty # RZero
          /\ scored_data[i].env_impact # RZero
          /\ scored_data[i].hazard_score # RZero

\* the input row a record was computed from
RowOf(rec) == data[rec.idx]

\* the scalar numeric columns of a row
ScalarNumericColumns ==
    {"lat", "lon", "depth_m", "pressure_atm", "temperature_c", "coral_coral_cover_pct"}

\* a row that is BaseRow in every column but the scalar numeric ones
OnlyScalarsDiffer(row) ==
    \A key \in DOMAIN BaseRow \ ScalarNumericColumns :
        key \in DOMAIN row /\ row[key] = BaseRow[key]

\* the number a scalar column holds, 0.0 when it is missing, empty or not a number
FloatOrZero(row, key) ==
    IF key \in DOMAIN row THEN OrZero(FloatOfText(row[key])) ELSE RZero

\* C5: a scalar numeric field (lat, lon, depth_m, pressure_atm, temperature_c,
\* coral cover) that is missing, empty or non-numeric counts as 0.0: the call does
\* not raise and every such row gets its record, with 0.0 in that field
C5_ScalarsDefaulted ==
    (result.op = "calculate_scores" /\ \A k \in 1..Len(data) : OnlyScalarsDiffer(data[k]))
        => /\ result.exc = "none"
           /\ Len(scored_data) = Len(data)
           /\ \A i \in Positions :
                 /\ scored_data[i].lat = FloatOrZero(RowOf(scored_data[i]), "lat")
                 /\ scored_data[i].lon = FloatOrZero(RowOf(scored_data[i]), "lon")
                 /\ scored_data[i].depth = FloatOrZero(RowOf(scored_data[i]), "depth_m")
                 /\ scored_data[i].pressure =
                        FloatOrZero(RowOf(scored_data[i]), "pressure_atm")
                 /\ scored_data[i].temp =
                        FloatOrZero(RowOf(scored_data[i]), "temperature_c")

\* the collection columns the sub-metrics convert with float()
NumericCollectionColumns ==
    {"resource_economic_value", "resource_abundance", "resource_purity",
     "resource_extraction_difficulty", "resource_environmental_impact",
     "life_density", "life_threat_level"}

\* a list of numbers, None and strings
FlatList(x) == IsList(x) /\ \A i \in 1..Len(x.l) : x.l[i].t \in {"num", "none", "str"}

\* a row that is BaseRow but for the entries of its numeric collections
OnlyEntriesDiffer(row) ==
    /\ DOMAIN row = DOMAIN BaseRow
    /\ \A key \in DOMAIN BaseRow :
          IF key \in NumericCollectionColumns
          THEN FlatList(Collection(row, key))
          ELSE row[key] = BaseRow[key]

\* C6: an entry of a numeric collection that is not a number is skipped: the call
\* does not raise and every row gets its record
C6_NonNumericSkipped ==
    (result.op = "calculate_scores" /\ \A k \in 1..Len(data) : OnlyEntriesDiffer(data[k]))
        => /\ result.exc = "none"
           /\ Len(scored_data) = Len(data)

\* the number an element of a numeric list stands for, None standing for zero
EntryVal(x) == IF x.t = "none" THEN RZero ELSE OrZero(PyFloat(x))

Min(a, b) == IF a < b THEN a ELSE b

\* the sum of v[i] * a[i] * p[i] over i in 1..n
RECURSIVE Products(_, _, _, _)
Products(v, a, p, n) ==
    IF n = 0 THEN RZero
    ELSE RAdd(Products(v, a, p, n - 1),
              RMul(RMul(EntryVal(v[n]), EntryVal(a[n])), EntryVal(p[n])))

Values(rec)    == Collection(RowOf(rec), "resource_economic_value")
Abundance(rec) == Collection(RowOf(rec), "resource_abundance")
Purity(rec)    == Collection(RowOf(rec), "resource_purity")

\* C7: total_value is the sum of value[i] * abundance[i] * purity[i] over the
\* indices in range for all three lists (clipped to the shortest of them), an
\* element that is None counting as zero
C7_TotalValueClipped ==
    result.op = "calculate_scores" =>
        \A k \in Positions :
            (IsList(Values(scored_data[k])) /\ IsList(Abundance(scored_data[k]))
                                            /\ IsList(Purity(scored_data[k])))
                => scored_data[k].total_value =
                       Products(Values(scored_data[k]).l, Abundance(scored_data[k]).l,
                                Purity(scored_data[k]).l,
                                Min(Len(Values(scored_data[k]).l),
                                    Min(Len(Abundance(scored_data[k]).l),
                                        Len(Purity(scored_data[k]).l))))

\* C7 witness: a record of a row with more values than abundances, all three
\* lists non-empty, and a total value that is not zero
C7_Witness ==
    /\ Returned
    /\ \E k \in Positions :
          /\ IsList(Values(scored_data[k])) /\ IsList(Abundance(scored_data[k]))
          /\ IsList(Purity(scored_data[k]))
          /\ Len(Values(scored_data[k]).l) > Len(Abundance(scored_data[k]).l)
          /\ Len(Abundance(scored_data[k]).l) > 0
          /\ Len(Purity(scored_data[k]).l) > 0
          /\ scored_data[k].total_value # RZero

Difficulties(rec) == Collection(RowOf(rec), "resource_extraction_difficulty")

RECURSIVE EntrySum(_)
EntrySum(xs) == IF xs = <<>> THEN RZero ELSE RAdd(EntryVal(xs[1]), EntrySum(Tail(xs)))

NotNone(xs) == SelectSeq(xs, LAMBDA x : x.t # "none")

\* C8 as stated: difficulty is the sum of the list, None counting as zero, over the
\* length of the list, and 0 for the empty list
C8_MeanOverLength ==
    result.op = "calculate_scores" =>
        \A k \in Positions :
            IsList(Difficulties(scored_data[k]))
                => scored_data[k].difficulty =
                       IF Difficulties(scored_data[k]).l = <<>> THEN RZero
                       ELSE RDiv(EntrySum(Difficulties(scored_data[k]).l),
                                 RInt(Len(Difficulties(scored_data[k]).l)))

\* C8: difficulty is the arithmetic mean of the elements of the extraction
\* difficulty list that are not None (a None is skipped and does not count in the
\* divisor), and 0 when the list is empty or holds nothing but None
C8_MeanOfPresent ==
    result.op = "calculate_scores" =>
        \A k \in Positions :
            IsList(Difficulties(scored_data[k]))
                => scored_data[k].difficulty =
                       IF NotNone(Difficulties(scored_data[k]).l) = <<>> THEN RZero
                       ELSE RDiv(EntrySum(NotNone(Difficulties(scored_data[k]).l)),
                                 RInt(Len(NotNone(Difficulties(scored_data[k]).l))))

\* C8 witness: a record of a row whose difficulty list holds a None next to a
\* number that is not zero
C8_Witness ==
    /\ Returned
    /\ \E k \in Positions :
          /\ IsList(Difficulties(scored_data[k]))
          /\ \E i \in 1..Len(Difficulties(scored_data[k]).l) :
                Difficulties(scored_data[k]).l[i].t = "none"
          /\ scored_data[k].difficulty # RZero

Impacts(rec)   == Collection(RowOf(rec), "resource_environmental_impact")
Densities(rec) == Collection(RowOf(rec), "life_density")
Threats(rec)   == Collection(RowOf(rec), "life_threat_level")
CoralCover(rec) == FloatOrZero(RowOf(rec), "coral_coral_cover_pct")

\* C9: env_impact is the sum of the resource environmental impacts, plus coral
\* cover / 10, plus 10 times the sum of the life densities, plus 5 times the sum of
\* the life threat levels
C9_EnvImpact ==
    result.op = "calculate_scores" =>
        \A k \in Positions :
            (IsList(Impacts(scored_data[k])) /\ IsList(Densities(scored_data[k]))
                                             /\ IsList(Threats(scored_data[k])))
                => scored_data[k].env_impact =
                       RAdd(RAdd(RAdd(EntrySum(Impacts(scored_data[k]).l),
                                      RDiv(CoralCover(scored_data[k]), RInt(10))),
                                 RMul(RInt(10), EntrySum(Densities(scored_data[k]).l))),
                            RMul(RInt(5), EntrySum(Threats(scored_data[k]).l)))

\* C9 witness: a record whose four environmental terms are all non-zero
C9_Witness ==
    /\ Returned
    /\ \E k \in Positions :
          /\ IsList(Impacts(scored_data[k])) /\ IsList(Densities(scored_data[k]))
          /\ IsList(Threats(scored_data[k]))
          /\ EntrySum(Impacts(scored_data[k]).l) # RZero
          /\ EntrySum(Densities(scored_data[k]).l) # RZero
          /\ EntrySum(Threats(scored_data[k]).l) # RZero
          /\ CoralCover(scored_data[k]) # RZero

Hazards(rec) == Collection(RowOf(rec), "hazard_severity")

\* the severity of one entry of the hazard list: the four labels, 0 for the rest
Severity(h) ==
    IF h.t # "str" THEN 0
    ELSE IF h.s = <<"l", "o", "w">> THEN 1
    ELSE IF h.s = <<"m", "e", "d", "i", "u", "m">> THEN 2
    ELSE IF h.s = <<"h", "i", "g", "h">> THEN 3
    ELSE IF h.s = <<"e", "x", "t", "r", "e", "m", "e">> THEN 5
    ELSE 0

RECURSIVE SeveritySum(_)
SeveritySum(hs) == IF hs = <<>> THEN 0 ELSE Severity(hs[1]) + SeveritySum(Tail(hs))

\* a row that is BaseRow but for its hazard severity, which is a list
OnlyHazardsDiffer(row) ==
    /\ DOMAIN row = DOMAIN BaseRow
    /\ \A key \in DOMAIN BaseRow \ {"hazard_severity"} : row[key] = BaseRow[key]
    /\ IsList(Collection(row, "hazard_severity"))

\* C10: hazard_score is the sum over the hazard severity list of the lookup
\* low 1, medium 2, high 3, extreme 5; any other entry (unknown or differently
\* cased string, number, nested literal) adds 0 and the call does not raise
C10_HazardLookup ==
    (result.op = "calculate_scores" /\ \A k \in 1..Len(data) : OnlyHazardsDiffer(data[k]))
        => /\ result.exc = "none"
           /\ Len(scored_data) = Len(data)
           /\ \A i \in Positions :
                 scored_data[i].hazard_score =
                     RInt(SeveritySum(Hazards(scored_data[i]).l))

\* a row without entries: each collection column is absent, empty or "[]"
AllEmpty(row) ==
    \A k \in CollectionColumns : k \notin DOMAIN row \/ row[k] \in {<<>>, EmptyListText}

\* a row that is BaseRow outside its collection columns and its coral cover
OnlyCollectionsDiffer(row) ==
    \A k \in DOMAIN BaseRow \ (CollectionColumns \cup {"coral_coral_cover_pct"}) :
        k \in DOMAIN row /\ row[k] = BaseRow[k]

\* C11: a cell whose collection fields are all absent or empty gets total_value 0,
\* difficulty 0, hazard_score 0 and an env_impact of coral_cover / 10 alone, and
\* scoring it raises no error
C11_EmptyNeutral ==
    result.op = "calculate_scores" =>
        /\ \A i \in Positions :
              AllEmpty(RowOf(scored_data[i])) =>
                  /\ scored_data[i].total_value = RZero
                  /\ scored_data[i].difficulty = RZero
                  /\ scored_data[i].hazard_score = RZero
                  /\ scored_data[i].env_impact =
                         RDiv(CoralCover(scored_data[i]), RInt(10))
        /\ (\A k \in 1..Len(data) : AllEmpty(data[k]) /\ OnlyCollectionsDiffer(data[k]))
              => (result.exc = "none" /\ Len(scored_data) = Len(data))

\* C11 witness: the record of a row whose table lacks the collection columns and
\* whose coral cover is not zero
C11_Witness ==
    /\ Returned
    /\ \E i \in Positions :
          /\ DOMAIN RowOf(scored_data[i]) \cap CollectionColumns = {}
          /\ scored_data[i].env_impact # RZero

\* what calculate_scores(weights) returns on a new object holding the rows
FirstCall(rows, weights) == SortByScoreDesc(ScoreLoop(rows, weights, 1, <<>>).recs)

\* C12: whatever calls of calculate_scores came before on the same loaded table,
\* the sequence a call with weights W returns is the one a first call with W
\* returns: same length, same order, same values; nothing of an earlier call is
\* left in it
C12_Idempotent == Returned => scored_data = FirstCall(data, result.w)

\* C12 witness: a second or later call has returned a ranking of several records
C12_Witness == Returned /\ calls >= 2 /\ Len(data) >= 2 /\ Len(scored_data) >= 2

\* a present text that is not bracket-delimited, with or without the whitespace
\* around it
NotBracketed(text) ==
    /\ Strip(text) # <<>>
    /\ ~(StartsWith(text, "[") /\ EndsWith(text, "]"))
    /\ ~(StartsWith(Strip(text), "[") /\ EndsWith(Strip(text), "]"))

\* the label fields of a record, by the column each is read from
LabelField(rec, k) ==
    IF k = "hazard_type" THEN rec.hazards
    ELSE IF k = "resource_type" THEN rec.resources
    ELSE rec.life

\* the records whose column k holds a present, non-bracketed text
RawLabels == {<<i, k>> \in Positions \X LabelColumns :
                 /\ k \in DOMAIN RowOf(scored_data[i])
                 /\ NotBracketed(RowOf(scored_data[i])[k])}

MapCells(rows, F(_)) ==
    [i \in DOMAIN rows |->
        [k \in DOMAIN rows[i] |->
            IF k \in CollectionColumns THEN F(rows[i][k]) ELSE rows[i][k]]]

\* what a call of calculate_scores leaves when it scores the rows as a first call:
\* the exception it raised, "none" if none, and the sequence it returned
SameOutcome(rows) ==
    /\ result.exc = ScoreLoop(rows, result.w, 1, <<>>).exc
    /\ Returned => scored_data = FirstCall(rows, result.w)

\* a text that is neither bracket-delimited nor a plain scalar: it opens or closes
\* a bracket without being a literal
Malformed(text) ==
    /\ NotBracketed(text)
    /\ \E i \in 1..Len(text) : text[i] \in {"[", "]"}

EmptyIfMalformed(text) == IF Malformed(text) THEN <<>> ELSE text

\* C14 as stated: a malformed collection text is decoded to the empty sequence
\* and nothing is raised, so the table scores as it does with these cells empty
C14_MalformedEmpty ==
    result.op = "calculate_scores" => SameOutcome(MapCells(data, EmptyIfMalformed))

Bracketed(text) == StartsWith(text, "[") /\ EndsWith(text, "]")

\* a bracket-delimited text that is not a valid literal
Undecodable(text) == Bracketed(text) /\ ~literal_eval(text).ok

EmptyIfUndecodable(text) == IF Undecodable(text) THEN <<>> ELSE text

\* C15 as stated: a bracket-delimited text that fails to decode is recovered as
\* the empty sequence inside the parser; the failure never reaches the caller and
\* the row is scored with that field contributing nothing
C15_DecodeFailureRecovered ==
    result.op = "calculate_scores" => SameOutcome(MapCells(data, EmptyIfUndecodable))

\* C16 as stated: whitespace around a collection text is trimmed before the
\* bracket test, so the table scores as it does with every collection cell trimmed
C16_Trimmed ==
    result.op = "calculate_scores" => SameOutcome(MapCells(data, Strip))

\* C17 as stated: a table that is missing or cannot be read makes load_data return
\* False, no exception leaving it; a table that exists loads, and when it has no
\* rows the ranking is empty
C17_UnavailableReported ==
    /\ (result.op = "load_data" /\ file.state # "present")
          => (result.exc = "none" /\ result.ret = "False")
    /\ (result.op = "load_data" /\ file.state = "present")
          => (result.exc = "none" /\ result.ret = "True")
    /\ (result.op = "calculate_scores" /\ data = <<>>)
          => (result.exc = "none" /\ scored_data = <<>>)

\* a row that is BaseRow in every column but row and col
OnlyRowColDiffer(row) ==
    \A key \in DOMAIN BaseRow \ {"row", "col"} :
        key \in DOMAIN row /\ row[key] = BaseRow[key]

\* C18 as stated: a row or col that is absent or is not an integer is defaulted
\* silently: the call raises nothing and every row of the table gets its record
C18_RowColDefaulted ==
    (result.op = "calculate_scores" /\ \A k \in 1..Len(data) : OnlyRowColDiffer(data[k]))
        => (result.exc = "none" /\ Len(scored_data) = Len(data))

\* the non-empty tile lists a tool can have validated
ValidatedLists == {ValidatedTiles(tiles) : tiles \in TileLists} \ {<<>>}

\* the tool was called and validated the tiles ts; its output waits to be streamed
Invoked(tool, ts) ==
    \E i \in 1..Len(tool_messages) :
        tool_messages[i].tool = tool /\ tool_messages[i].tiles = ts

\* the response holds a highlight event with the tiles ts
Highlighted(ts) == \E i \in 1..Len(stream) : stream[i] = Event("highlight", ts)

\* C19 as stated: when highlight_tiles is invoked with at least one tile having
\* row and col, the response stream subsequently holds a highlight event with
\* the validated tiles
C19_HighlightTilesStreamed ==
    \A ts \in ValidatedLists : Invoked("highlight_tiles", ts) ~> Highlighted(ts)

\* both variants have scored the same table with the same weights
BothRan ==
    /\ result.op = "calculate_scores"
    /\ mining_result.op = "main"
    /\ file.state = "present"
    /\ data = mining_data
    /\ result.w = mining_result.w

\* two records of the same input row with the same score and sub-metrics
SameMetrics(a, b) ==
    /\ a.idx = b.idx
    /\ a.score = b.score
    /\ a.total_value = b.total_value
    /\ a.difficulty = b.difficulty
    /\ a.env_impact = b.env_impact
    /\ a.hazard_score = b.hazard_score

\* the two rankings hold the same records in the same order
SameRanking ==
    /\ Len(scored_data) = Len(mining_scored_data)
    /\ \A i \in Positions : SameMetrics(scored_data[i], mining_scored_data[i])

\* C20 as stated: on the same table and weights the two engine variants either
\* both raise or both return, and when they return their rankings agree in record
\* count, order, score and the four sub-metrics
C20_VariantsAgree ==
    BothRan =>
        /\ (result.exc = "none") <=> (mining_result.exc = "none")
        /\ (result.exc = "none" /\ mining_result.exc = "none") => SameRanking

\* the collection columns that feed a sub-metric
SubMetricColumns == CollectionColumns \ LabelColumns

\* the table with every present, non-bracketed text of a sub-metric column replaced
\* by the empty text
WithoutRawText(rows) ==
    [i \in DOMAIN rows |->
        [k \in DOMAIN rows[i] |->
            IF k \in SubMetricColumns /\ NotBracketed(rows[i][k]) THEN <<>>
            ELSE rows[i][k]]]

\* C21 as stated: a present, non-bracketed text in a collection column contributes
\* nothing to any sub-metric, so the table scores as it does with these cells
\* empty; in particular total_value is 0 for a non-bracketed abundance or purity
C21_RawTextContributesNothing ==
    result.op = "calculate_scores" => SameOutcome(WithoutRawText(data))

====
